---- MODULE Spec2Model ----
(***************************************************************************)
(* Jarvis voice assistant: the dialogue loop of VoiceAssistant.run         *)
(* (src/Main.py), the intent cascade of process_command, the song          *)
(* resolver, the handlers it dispatches to, and the speech output path     *)
(* (speak / _speak_sync).                                                  *)
(*                                                                         *)
(* Python strings are sequences of one-character strings, so that prefix,  *)
(* substring, replace and strip are computed as Python computes them.      *)
(***************************************************************************)
EXTENDS Integers, Sequences, FiniteSets, TLC

(***************************************************************************)
(* Python str operations                                                   *)
(***************************************************************************)

\* str.startswith(p)
StartsWith(s, p) == Len(s) >= Len(p) /\ \A k \in 1..Len(p) : s[k] = p[k]

\* old occurs in s at position i
OccursAt(s, old, i) ==
  /\ i + Len(old) - 1 <= Len(s)
  /\ \A k \in 1..Len(old) : s[i + k - 1] = old[k]

\* the Python test `sub in s` on strings (the empty string is in every string)
Contains(sub, s) == \E i \in 1..(Len(s) + 1) : OccursAt(s, sub, i)

\* str.replace(old, new) for a non-empty old: every non-overlapping
\* occurrence, scanning left to right
RECURSIVE ReplaceFrom(_, _, _, _)
ReplaceFrom(s, old, new, i) ==
  IF i > Len(s) THEN <<>>
  ELSE IF OccursAt(s, old, i) THEN new \o ReplaceFrom(s, old, new, i + Len(old))
  ELSE <<s[i]>> \o ReplaceFrom(s, old, new, i + 1)

Replace(s, old, new) == ReplaceFrom(s, old, new, 1)

IsSpace(c) == c \in {" ", "\t", "\n"}

RECURSIVE LStrip(_)
LStrip(s) == IF s # <<>> /\ IsSpace(Head(s)) THEN LStrip(Tail(s)) ELSE s

RECURSIVE RStrip(_)
RStrip(s) == IF s # <<>> /\ IsSpace(s[Len(s)]) THEN RStrip(SubSeq(s, 1, Len(s) - 1)) ELSE s

\* str.strip()
Strip(s) == RStrip(LStrip(s))

UpperCase == <<"A","B","C","D","E","F","G","H","I","J","K","L","M","N","O","P","Q","R","S","T","U","V","W","X","Y","Z">>

LowerCase == <<"a","b","c","d","e","f","g","h","i","j","k","l","m","n","o","p","q","r","s","t","u","v","w","x","y","z">>

\* the lower-case letter of each upper-case letter
ToLower == [c \in {UpperCase[i] : i \in 1..26} |->
              LowerCase[CHOOSE i \in 1..26 : UpperCase[i] = c]]

LowerChar(c) == IF c \in DOMAIN ToLower THEN ToLower[c] ELSE c

\* str.lower()
RECURSIVE Lower(_)
Lower(s) == IF s = <<>> THEN <<>> ELSE <<LowerChar(Head(s))>> \o Lower(Tail(s))

\* " ".join(words)
RECURSIVE Join(_)
Join(ws) ==
  IF ws = <<>> THEN <<>>
  ELSE IF Len(ws) = 1 THEN ws[1]
  ELSE ws[1] \o <<" ">> \o Join(Tail(ws))

\* the value None of an Optional[str]; no string, since its one element is
\* not a character
None == <<"<None>">>

(***************************************************************************)
(* Static configuration tables                                             *)
(***************************************************************************)

wake_word == <<"j","a","r","v","i","s">>

play_trigger == <<"p","l","a","y">>

kw_news == <<"n","e","w","s">>

kw_time == <<"t","i","m","e">>

kw_date == <<"d","a","t","e">>

\* process_command: website_commands, in dict insertion order
website_commands ==
  << [cmd |-> <<"o","p","e","n"," ","g","o","o","g","l","e">>,
      url |-> "https://google.com", message |-> "Opening Google"],
     [cmd |-> <<"o","p","e","n"," ","y","o","u","t","u","b","e">>,
      url |-> "https://youtube.com", message |-> "Opening YouTube"],
     [cmd |-> <<"o","p","e","n"," ","i","n","s","t","a","g","r","a","m">>,
      url |-> "https://instagram.com", message |-> "Opening Instagram"],
     [cmd |-> <<"o","p","e","n"," ","l","i","n","k","e","d","i","n">>,
      url |-> "https://linkedin.com", message |-> "Opening LinkedIn"],
     [cmd |-> <<"o","p","e","n"," ","f","a","c","e","b","o","o","k">>,
      url |-> "https://facebook.com", message |-> "Opening Facebook"],
     [cmd |-> <<"o","p","e","n"," ","t","w","i","t","t","e","r">>,
      url |-> "https://twitter.com", message |-> "Opening Twitter"],
     [cmd |-> <<"o","p","e","n"," ","r","e","d","d","i","t">>,
      url |-> "https://reddit.com", message |-> "Opening Reddit"] >>

\* process_command: the news categories, in the order of the if/elif chain;
\* each with the keywords that select it
news_categories ==
  << [category |-> "technology",
      keywords |-> { <<"t","e","c","h","n","o","l","o","g","y">>, <<"t","e","c","h">> }],
     [category |-> "sports", keywords |-> { <<"s","p","o","r","t","s">> }],
     [category |-> "business", keywords |-> { <<"b","u","s","i","n","e","s","s">> }],
     [category |-> "entertainment",
      keywords |-> { <<"e","n","t","e","r","t","a","i","n","m","e","n","t">> }] >>

exit_commands ==
  << <<"g","o","o","d","b","y","e">>, <<"s","t","o","p">>, <<"q","u","i","t">>,
     <<"e","x","i","t">>, <<"b","y","e">> >>

\* _setup_music_library: music_library, in dict insertion order
music_library ==
  << [name |-> <<"s","k","y","f","a","l","l">>,
      url |-> "https://open.spotify.com/track/6VObnIkLVruX4UVyxWhlqm"],
     [name |-> <<"l","e","v","i","t","a","t","i","n","g">>,
      url |-> "https://open.spotify.com/track/39LLxExYz6ewLAcYrzQQyP"],
     [name |-> <<"s","u","g","a","r">>,
      url |-> "https://open.spotify.com/track/2iuZJX9X9P0GKaE93xcPjk"],
     [name |-> <<"d","e","s","p","a","c","i","t","o">>,
      url |-> "https://open.spotify.com/track/6habFhsOp2NvshLv26DqMb"],
     [name |-> <<"f","a","d","e","d">>,
      url |-> "https://open.spotify.com/track/7BKLCZ1jbUBVqRi2FVlTVw"],
     [name |-> <<"d","u","s","k"," ","t","i","l","l"," ","d","a","w","n">>,
      url |-> "https://open.spotify.com/track/3e7sxremeOE3wTySiOhGiP"],
     [name |-> <<"s","h","a","p","e"," ","o","f"," ","y","o","u">>,
      url |-> "https://open.spotify.com/track/7qiZfU4dY1lWllzX7mPBI3"],
     [name |-> <<"p","e","r","f","e","c","t">>,
      url |-> "https://open.spotify.com/track/0tgVpDi06FyKpA1z0VMD4v"],
     [name |-> <<"b","e","l","i","e","v","e","r">>,
      url |-> "https://open.spotify.com/track/0pqnGHJpmpxLKifKRmU6WP"],
     [name |-> <<"b","l","i","n","d","i","n","g"," ","l","i","g","h","t","s">>,
      url |-> "https://open.spotify.com/track/0VjIjW4GlUZAMYd2vXMi3b"] >>

\* _setup_music_library: song_aliases, in dict insertion order
song_aliases ==
  << [song |-> <<"d","u","s","k"," ","t","i","l","l"," ","d","a","w","n">>,
      aliases |-> << <<"d","u","s","k"," ","t","i","l","l"," ","d","a","w","n">>,
                     <<"d","u","s","k"," ","t","o"," ","d","a","w","n">>,
                     <<"d","u","s","k"," ","u","n","t","i","l"," ","d","a","w","n">> >>],
     [song |-> <<"s","h","a","p","e"," ","o","f"," ","y","o","u">>,
      aliases |-> << <<"s","h","a","p","e"," ","o","f"," ","y","o","u">>,
                     <<"s","h","a","p","e"," ","o","f"," ","u">> >>],
     [song |-> <<"b","l","i","n","d","i","n","g"," ","l","i","g","h","t","s">>,
      aliases |-> << <<"b","l","i","n","d","i","n","g"," ","l","i","g","h","t","s">>,
                     <<"b","l","i","n","d","i","n","g"," ","l","i","g","h","t">> >>] >>

\* the smallest index of a set of indices, 0 when it is empty: the element a
\* Python for loop with an early return stops at
FirstIn(S) == IF S = {} THEN 0 ELSE CHOOSE i \in S : \A j \in S : i <= j

\* self.music_library[song]
LibraryUrl(song) ==
  music_library[CHOOSE i \in 1..Len(music_library) : music_library[i].name = song].url

(***************************************************************************)
(* Song resolver                                                           *)
(***************************************************************************)

\* find_song without the loop over song_aliases
find_song_noAlias(song_query0) ==
  LET song_query == Strip(Lower(song_query0))
      direct == FirstIn({i \in 1..Len(music_library) : music_library[i].name = song_query})
      partial == FirstIn({i \in 1..Len(music_library) :
                            \/ Contains(song_query, music_library[i].name)
                            \/ Contains(music_library[i].name, song_query)})
  IN  IF direct # 0 THEN music_library[direct].url
      ELSE IF partial # 0 THEN music_library[partial].url
      ELSE "None"

\* find_song whose partial matching only tests `song_name in song_query`
find_song_oneWay(song_query0) ==
  LET song_query == Strip(Lower(song_query0))
      direct == FirstIn({i \in 1..Len(music_library) : music_library[i].name = song_query})
      alias == FirstIn({i \in 1..Len(song_aliases) :
                          \E k \in 1..Len(song_aliases[i].aliases) :
                             song_aliases[i].aliases[k] = song_query})
      partial == FirstIn({i \in 1..Len(music_library) :
                            Contains(music_library[i].name, song_query)})
  IN  IF direct # 0 THEN music_library[direct].url
      ELSE IF alias # 0 THEN LibraryUrl(song_aliases[alias].song)
      ELSE IF partial # 0 THEN music_library[partial].url
      ELSE "None"

\* VoiceAssistant.find_song; the result is the URL, or "None"
find_song(song_query0) ==
  LET song_query == Strip(Lower(song_query0))
      direct == FirstIn({i \in 1..Len(music_library) : music_library[i].name = song_query})
      alias == FirstIn({i \in 1..Len(song_aliases) :
                          \E k \in 1..Len(song_aliases[i].aliases) :
                             song_aliases[i].aliases[k] = song_query})
      partial == FirstIn({i \in 1..Len(music_library) :
                            \/ Contains(song_query, music_library[i].name)
                            \/ Contains(music_library[i].name, song_query)})
  IN  IF direct # 0 THEN music_library[direct].url
      ELSE IF alias # 0 THEN LibraryUrl(song_aliases[alias].song)
      ELSE IF partial # 0 THEN music_library[partial].url
      ELSE "None"

(***************************************************************************)
(* Speech output as seen by the handlers: the texts passed to speak()      *)
(***************************************************************************)

\* a text passed to speak(): a fixed phrase and the values formatted into it
U(text, arg) == [text |-> text, arg |-> arg]

DigitChars == <<"0","1","2","3","4","5","6","7","8","9">>

\* str(n) of a one-digit number
Str(n) == DigitChars[n + 1]

\* VoiceAssistant.speak refuses an empty text; log is the texts spoken so far
speak(log, u) == IF u.text = "" /\ u.arg = <<>> THEN log ELSE Append(log, u)

\* a reply string computed at run time (an AI completion) as a spoken text:
\* one argument per character
Reply(chars) == U("", chars)

(***************************************************************************)
(* AskAI handler                                                           *)
(***************************************************************************)

\* VoiceAssistant.ai_process. client: whether self.client is set; out: what
\* generate_content does (raises, answers with text None, answers with text)
ai_process(command, client, out) ==
  IF ~client THEN U("AI functionality is not available. Please check your API key.", <<>>)
  ELSE IF out.kind = "text" THEN Reply(Strip(Replace(out.text, <<"*">>, <<>>)))
  ELSE U("I'm having trouble processing that request right now.", <<>>)

(***************************************************************************)
(* AIClient (src/Ai_agent_module.py)                                       *)
(***************************************************************************)

\* str.split(): the maximal runs of non-blank characters, cur being the run
\* read so far
RECURSIVE SplitFrom(_, _)
SplitFrom(s, cur) ==
  IF s = <<>> THEN (IF cur = <<>> THEN <<>> ELSE <<cur>>)
  ELSE IF IsSpace(Head(s))
  THEN (IF cur = <<>> THEN <<>> ELSE <<cur>>) \o SplitFrom(Tail(s), <<>>)
  ELSE SplitFrom(Tail(s), Append(cur, Head(s)))

Split(s) == SplitFrom(s, <<>>)

\* str.endswith(('.', '!', '?'))
EndsWithMark(s) == s # <<>> /\ s[Len(s)] \in {".", "!", "?"}

\* the character U+0060 (grave accent), which a TLA+ string cannot hold
Backtick == "<grave accent>"

\* AIClient._clean_response; text is None or a string
clean_response(text) ==
  IF text = None \/ text = <<>> THEN U("I'm sorry, I couldn't generate a response.", <<>>)
  ELSE LET unmarked == Replace(Replace(Replace(text, <<"*">>, <<>>), <<"#">>, <<>>),
                               <<Backtick>>, <<>>)
           cleaned == Join(Split(unmarked))
       IN  Reply(Strip(IF cleaned # <<>> /\ ~EndsWithMark(cleaned)
                       THEN cleaned \o <<".">>
                       ELSE cleaned))

\* AIClient.__init__: key is whether GEMINI_API_KEY is set
AIClient_init(key) == IF ~key THEN "ValueError" ELSE "ok"

\* AIClient.generate_response; out is what generate_content does
generate_response(prompt, out) ==
  IF out.kind = "text" THEN clean_response(out.text)
  ELSE IF out.kind = "none" THEN clean_response(None)
  ELSE U("I apologize, but I'm having trouble processing your request right now.", <<>>)

(***************************************************************************)
(* FetchNews handler                                                       *)
(***************************************************************************)

Min(a, b) == IF a <= b THEN a ELSE b

\* article.get('title', 'No title available')
NoTitleKey == "<no title key>"

TitleOf(article) == IF article = NoTitleKey THEN "No title available" ELSE article

\* the headline loop of get_news: speaks articles[i..n] of the first three
RECURSIVE SpeakHeadlines(_, _, _, _)
SpeakHeadlines(log, articles, i, n) ==
  IF i > n THEN log
  ELSE SpeakHeadlines(speak(log, U("News {i}: {title}", <<Str(i), TitleOf(articles[i])>>)),
                      articles, i + 1, n)

\* get_news without the test for an empty list of articles
get_news_noEmptyTest(log, category, key, out) ==
  IF ~key THEN [said |-> speak(log, U("News service is not configured.", <<>>)), ret |-> FALSE]
  ELSE IF out.kind = "timeout"
  THEN [said |-> speak(log, U("News service is taking too long to respond.", <<>>)), ret |-> FALSE]
  ELSE IF out.kind = "request_error"
  THEN [said |-> speak(log, U("I'm having trouble connecting to the news service.", <<>>)),
        ret |-> FALSE]
  ELSE IF out.kind = "error"
  THEN [said |-> speak(log, U("An error occurred while fetching news.", <<>>)), ret |-> FALSE]
  ELSE LET n == Min(3, Len(out.articles))
       IN  [said |-> SpeakHeadlines(
                        speak(log, U("Here are the top {n} headlines:", <<Str(n)>>)),
                        out.articles, 1, n),
            ret |-> TRUE]

\* get_news that reads every article out
get_news_allArticles(log, category, key, out) ==
  IF ~key THEN [said |-> speak(log, U("News service is not configured.", <<>>)), ret |-> FALSE]
  ELSE IF out.kind = "timeout"
  THEN [said |-> speak(log, U("News service is taking too long to respond.", <<>>)), ret |-> FALSE]
  ELSE IF out.kind = "request_error"
  THEN [said |-> speak(log, U("I'm having trouble connecting to the news service.", <<>>)),
        ret |-> FALSE]
  ELSE IF out.kind = "error"
  THEN [said |-> speak(log, U("An error occurred while fetching news.", <<>>)), ret |-> FALSE]
  ELSE IF out.articles = <<>>
  THEN [said |-> speak(log, U("No news articles found at the moment.", <<>>)), ret |-> FALSE]
  ELSE LET n == Len(out.articles)
       IN  [said |-> SpeakHeadlines(
                        speak(log, U("Here are the top {n} headlines:", <<Str(n)>>)),
                        out.articles, 1, n),
            ret |-> TRUE]

\* VoiceAssistant.get_news. key: whether self.newsapi_key is set; out: what
\* the request does. The result is the texts spoken and the return value.
get_news(log, category, key, out) ==
  IF ~key THEN [said |-> speak(log, U("News service is not configured.", <<>>)), ret |-> FALSE]
  ELSE IF out.kind = "timeout"
  THEN [said |-> speak(log, U("News service is taking too long to respond.", <<>>)), ret |-> FALSE]
  ELSE IF out.kind = "request_error"
  THEN [said |-> speak(log, U("I'm having trouble connecting to the news service.", <<>>)),
        ret |-> FALSE]
  ELSE IF out.kind = "error"
  THEN [said |-> speak(log, U("An error occurred while fetching news.", <<>>)), ret |-> FALSE]
  ELSE IF out.articles = <<>>
  THEN [said |-> speak(log, U("No news articles found at the moment.", <<>>)), ret |-> FALSE]
  ELSE LET n == Min(3, Len(out.articles))
       IN  [said |-> SpeakHeadlines(
                        speak(log, U("Here are the top {n} headlines:", <<Str(n)>>)),
                        out.articles, 1, n),
            ret |-> TRUE]

(***************************************************************************)
(* Intent router: process_command                                          *)
(*                                                                         *)
(* env is what the outside world does during the turn:                     *)
(*   env.browser  "ok" | "raise"    webbrowser.open                        *)
(*   env.ai       what generate_content does                               *)
(*   env.news     what the news request does                               *)
(*   env.tts      what the speech engine does with the texts spoken        *)
(*   env.client, env.key   whether the AI client / the news key is set     *)
(* The result is the return value ("continue", "quit", or "raise" when an  *)
(* exception leaves process_command), the texts spoken, the URLs opened,   *)
(* and the category / query handed to get_news / ai_process; song is the   *)
(* query find_song was called with, None when it was not called.           *)
(***************************************************************************)

Turn(result, said, opened, news, ai) ==
  [result |-> result, said |-> said, opened |-> opened, news |-> news, ai |-> ai,
   song |-> None]

\* a site URL, and the YouTube search URL built from a song query
SiteUrl(url) == [url |-> url, q |-> <<>>]

YoutubeSearch(song_query) ==
  [url |-> "https://www.youtube.com/results?search_query=",
   q |-> Replace(song_query, <<" ">>, <<"+">>)]

\* webbrowser.open(url) after the texts in said were spoken
OpenBrowser(said, url, env) ==
  IF env.browser = "raise"
  THEN Turn("raise", said, <<>>, "none", None)
  ELSE Turn("continue", said, <<url>>, "none", None)

\* the website trigger of the table that the for loop stops at, 0 if none
WebsiteMatch(command) ==
  FirstIn({i \in 1..Len(website_commands) : Contains(website_commands[i].cmd, command)})

WebsiteHandler(command, env) ==
  LET site == website_commands[WebsiteMatch(command)]
  IN  OpenBrowser(speak(<<>>, U(site.message, <<>>)), SiteUrl(site.url), env)

\* the song query of a command that starts with "play"
SongQuery(command) == Strip(Replace(command, play_trigger, <<>>))

\* MusicHandler without the test for an empty song query
MusicHandler_noEmptyTest(command, env) ==
  LET song_query == SongQuery(command)
      song_url == find_song(song_query)
  IN  [(IF song_url # "None"
        THEN OpenBrowser(speak(<<>>, U("Playing {song_query}", song_query)),
                         SiteUrl(song_url), env)
        ELSE OpenBrowser(
               speak(speak(<<>>,
                           U("Sorry, I couldn't find {song_query} in my music library.",
                             song_query)),
                     U("Let me search for it on YouTube instead.", <<>>)),
               YoutubeSearch(song_query), env))
       EXCEPT !.song = song_query]

MusicHandler(command, env) ==
  LET song_query == SongQuery(command)
      song_url == find_song(song_query)
  IN  IF song_query = <<>>
      THEN Turn("continue", speak(<<>>, U("Please specify a song to play.", <<>>)),
                <<>>, "none", None)
      ELSE [(IF song_url # "None"
             THEN OpenBrowser(speak(<<>>, U("Playing {song_query}", song_query)),
                              SiteUrl(song_url), env)
             ELSE OpenBrowser(
                    speak(speak(<<>>,
                                U("Sorry, I couldn't find {song_query} in my music library.",
                                  song_query)),
                          U("Let me search for it on YouTube instead.", <<>>)),
                    YoutubeSearch(song_query), env))
            EXCEPT !.song = song_query]

\* the category the if/elif chain under "news" selects
NewsCategory(command) ==
  LET hit == FirstIn({i \in 1..Len(news_categories) :
                        \E k \in news_categories[i].keywords : Contains(k, command)})
  IN  IF hit = 0 THEN "general" ELSE news_categories[hit].category

NewsHandler(command, env) ==
  LET category == NewsCategory(command)
  IN  Turn("continue", get_news(<<>>, category, env.key, env.news).said, <<>>,
           category, None)

TimeHandler ==
  Turn("continue", speak(<<>>, U("The current time is {current_time}", <<"%I:%M %p">>)),
       <<>>, "none", None)

DateHandler ==
  Turn("continue", speak(<<>>, U("Today is {current_date}", <<"%B %d, %Y">>)),
       <<>>, "none", None)

IsExit(command) == \E i \in 1..Len(exit_commands) : Contains(exit_commands[i], command)

QuitHandler ==
  Turn("quit", speak(<<>>, U("Goodbye! Have a great day!", <<>>)), <<>>, "none", None)

AiHandler(command, env) ==
  Turn("continue",
       speak(speak(<<>>, U("Let me think about that...", <<>>)),
             ai_process(command, env.client, env.ai)),
       <<>>, "none", command)

\* the cascade with "time" tested before "news"
Cascade_timeBeforeNews(command, env) ==
  IF command = <<>> THEN Turn("continue", <<>>, <<>>, "none", None)
  ELSE IF WebsiteMatch(command) # 0 THEN WebsiteHandler(command, env)
  ELSE IF StartsWith(command, play_trigger) THEN MusicHandler(command, env)
  ELSE IF Contains(kw_time, command) THEN TimeHandler
  ELSE IF Contains(kw_news, command) THEN NewsHandler(command, env)
  ELSE IF Contains(kw_date, command) THEN DateHandler
  ELSE IF IsExit(command) THEN QuitHandler
  ELSE AiHandler(command, env)

\* process_command, lines 227-307, on the normalized command
Cascade(command, env) ==
  IF command = <<>> THEN Turn("continue", <<>>, <<>>, "none", None)
  ELSE IF WebsiteMatch(command) # 0 THEN WebsiteHandler(command, env)
  ELSE IF StartsWith(command, play_trigger) THEN MusicHandler(command, env)
  ELSE IF Contains(kw_news, command) THEN NewsHandler(command, env)
  ELSE IF Contains(kw_time, command) THEN TimeHandler
  ELSE IF Contains(kw_date, command) THEN DateHandler
  ELSE IF IsExit(command) THEN QuitHandler
  ELSE AiHandler(command, env)

\* VoiceAssistant.process_command
process_command(command0, env) == Cascade(Strip(Lower(command0)), env)

(***************************************************************************)
(* The outside world: what the recognizer hears, what the adapters do      *)
(***************************************************************************)

\* bounds of the model
MaxArticles == 4

MaxExceptionTurns == 5

MaxThreads == 3

word ==
  [jarvis |-> <<"j","a","r","v","i","s">>, Jarvis |-> <<"J","a","r","v","i","s">>,
   open |-> <<"o","p","e","n">>, Open |-> <<"O","p","e","n">>,
   google |-> <<"g","o","o","g","l","e">>, Google |-> <<"G","o","o","g","l","e">>,
   youtube |-> <<"y","o","u","t","u","b","e">>, and |-> <<"a","n","d">>,
   the |-> <<"t","h","e">>, playlist |-> <<"p","l","a","y","l","i","s","t">>,
   play |-> <<"p","l","a","y">>, skyfall |-> <<"s","k","y","f","a","l","l">>,
   news |-> <<"n","e","w","s">>, at |-> <<"a","t">>, this |-> <<"t","h","i","s">>,
   time |-> <<"t","i","m","e">>, tech |-> <<"t","e","c","h">>,
   what |-> <<"w","h","a","t">>, is |-> <<"i","s">>, it |-> <<"i","t">>,
   date |-> <<"d","a","t","e">>, update |-> <<"u","p","d","a","t","e">>,
   stop |-> <<"s","t","o","p">>, goodbye |-> <<"g","o","o","d","b","y","e">>,
   exit |-> <<"e","x","i","t">>, hey |-> <<"h","e","y">>,
   tell |-> <<"t","e","l","l">>, me |-> <<"m","e">>, a |-> <<"a">>,
   joke |-> <<"j","o","k","e">>, display |-> <<"d","i","s","p","l","a","y">>]

\* the texts recognize_google may return
RawTexts ==
  { Join(<<word.jarvis>>),
    Join(<<word.jarvis, <<>>>>),
    Join(<<word.jarvis, word.jarvis>>),
    Join(<<word.Jarvis, word.Open, word.Google>>),
    Join(<<word.open, word.google>>),
    Join(<<word.stop>>),
    Join(<<word.hey, word.jarvis, word.stop>>),
    Join(<<word.jarvis, word.open, word.youtube, word.and, word.play, word.skyfall>>),
    Join(<<word.jarvis, word.play, word.open, word.google>>),
    Join(<<word.jarvis, word.play, word.skyfall>>),
    Join(<<word.jarvis, word.play>>),
    Join(<<word.jarvis, word.play, word.the, word.playlist>>),
    Join(<<word.jarvis, word.play, word.the, word.news>>),
    Join(<<word.jarvis, word.display, word.the, word.news>>),
    Join(<<word.jarvis, word.news, word.at, word.this, word.time>>),
    Join(<<word.jarvis, word.tech, word.news>>),
    Join(<<word.jarvis, word.what, word.time, word.is, word.it>>),
    Join(<<word.jarvis, word.time, word.and, word.date>>),
    Join(<<word.jarvis, word.stop, word.the, word.time>>),
    Join(<<word.jarvis, word.what, word.is, word.the, word.date>>),
    Join(<<word.jarvis, word.update>>),
    Join(<<word.jarvis, word.date, word.and, word.exit>>),
    Join(<<word.jarvis, word.stop>>),
    Join(<<word.jarvis, word.goodbye>>),
    Join(<<word.jarvis, word.tell, word.me, word.a, word.joke>>) }

\* what one call of listen_for_command meets: a failing microphone, a failing
\* calibration, one of the recognizer's errors, or a recognized text
ListenOutcomes ==
  { [kind |-> k, text |-> <<>>] :
      k \in {"mic_error", "calib_error", "timeout", "unknown", "request_error", "other"} }
  \cup { [kind |-> "text", text |-> t] : t \in RawTexts }

\* what generate_content does
AiOutcomes ==
  { [kind |-> "raise", text |-> <<>>], [kind |-> "none", text |-> <<>>],
    [kind |-> "text", text |-> <<"*","*","H","e","l","l","o","*","*"," ","t","h","e","r","e">>],
    [kind |-> "text", text |-> <<"S","u","r","e",".">>],
    [kind |-> "text", text |-> <<" ">>] }

\* the titles of the articles the news service returns, in order
Feed == <<"Headline 1", "Headline 2", NoTitleKey, "Headline 4", "Headline 5", "Headline 6">>

\* what the news request does
NewsOutcomes ==
  { [kind |-> k, articles |-> <<>>] : k \in {"timeout", "request_error", "error"} }
  \cup { [kind |-> "ok", articles |-> SubSeq(Feed, 1, n)] : n \in 0..MaxArticles }

\* what the speech engine does with a text: engine.say and engine.runAndWait
\* return, or one of them raises
TtsOutcomes == {"ok", "raise"}

Envs(client, key) ==
  [browser : {"ok", "raise"}, ai : AiOutcomes, news : NewsOutcomes, tts : TtsOutcomes,
   client : {client}, key : {key}]

(***************************************************************************)
(* Speech input: listen_for_command                                        *)
(***************************************************************************)

\* VoiceAssistant.listen_for_command: the value returned, the new value of
\* self.is_listening, and whether adjust_for_ambient_noise was called
listen_for_command(is_listening, out) ==
  IF out.kind = "mic_error"
  THEN [ret |-> None, is_listening |-> is_listening, calibrated |-> FALSE]
  ELSE IF ~is_listening /\ out.kind = "calib_error"
  THEN [ret |-> None, is_listening |-> FALSE, calibrated |-> TRUE]
  ELSE [ret |-> IF out.kind = "text" THEN Lower(out.text) ELSE None,
        is_listening |-> TRUE, calibrated |-> ~is_listening]

(***************************************************************************)
(* The dialogue loop: VoiceAssistant.run                                   *)
(***************************************************************************)

VARIABLES
  pc,                 \* where run() is: "announce1", "announce2", "listen", "burst",
                      \* "wake", "dispatch", "exc", "shutdown", "done", "aborted"
  should_quit,        \* self.should_quit
  is_listening,       \* self.is_listening
  client,             \* whether self.client is set
  newsapi_key,        \* whether self.newsapi_key is set
  consecutive_errors, \* the local of run()
  command,            \* the local of run(): what listen_for_command returned last
  said,               \* the texts passed to speak() in the current iteration
  opened,             \* the URLs passed to webbrowser.open in the current iteration
  result,             \* how process_command ended in the current iteration
  newsReq,            \* the category handed to get_news in the current iteration
  aiReq,              \* the query handed to ai_process in the current iteration
  failure,            \* the failure met in the current iteration
  interrupted,        \* a KeyboardInterrupt was raised
  prevErrors,         \* consecutive_errors before the listen that led to "wake"
  noneRun,            \* back-to-back listens that returned None, counted from the
                      \* last iteration that began with consecutive_errors = 0
                      \* or followed a recognition
  startCount,         \* consecutive_errors when that run of None began
  excRun,             \* back-to-back iterations that ended in the loop's except clause
  sayers,             \* the executions of _speak_sync: flow 0 is the caller of a
                      \* synchronous speak(), flows 1..MaxThreads are the threads
  call                \* the method called on its own, outside run(): its name,
                      \* its arguments and what it returned or did

vars ==
  <<pc, should_quit, is_listening, client, newsapi_key, consecutive_errors, command,
    said, opened, result, newsReq, aiReq, failure, interrupted,
    prevErrors, noneRun, startCount, excRun, sayers, call>>

max_consecutive_errors == 5

Idle == [pc |-> "idle", text |-> ""]

\* no method has been called on its own
NoCall == [op |-> "none"]

Init ==
  /\ pc = "announce1"
  /\ should_quit = FALSE
  /\ is_listening = FALSE
  /\ client \in BOOLEAN
  /\ newsapi_key \in BOOLEAN
  /\ consecutive_errors = 0
  /\ command = None
  /\ said = <<>>
  /\ opened = <<>>
  /\ result = "none"
  /\ newsReq = "none"
  /\ aiReq = None
  /\ failure = "none"
  /\ interrupted = FALSE
  /\ prevErrors = 0
  /\ noneRun = 0
  /\ startCount = 0
  /\ excRun = 0
  /\ sayers = [t \in 0..MaxThreads |-> Idle]
  /\ call = NoCall

\* the part of the state only run() itself writes
loopVars == <<should_quit, is_listening, client, newsapi_key, command, call>>

\* run(), lines 341-342: the two announcements, spoken before the try
Announce1 ==
  /\ pc = "announce1"
  /\ said' = speak(said, U("Jarvis is now online and ready to assist you!", <<>>))
  /\ pc' = "announce2"
  /\ UNCHANGED <<loopVars, consecutive_errors, opened, result, newsReq, aiReq, failure,
                 interrupted, prevErrors, noneRun, startCount, excRun, sayers>>

Announce2 ==
  /\ pc = "announce2"
  /\ said' = speak(said, U("Say 'Jarvis' followed by your command.", <<>>))
  /\ consecutive_errors' = 0
  /\ pc' = "listen"
  /\ UNCHANGED <<loopVars, opened, result, newsReq, aiReq, failure,
                 interrupted, prevErrors, noneRun, startCount, excRun, sayers>>

\* the burst test written > instead of >=
OnListenResult_offByOne(errors, ret) ==
  IF ret = None
  THEN IF errors + 1 > max_consecutive_errors
       THEN [errors |-> errors + 1, pc |-> "burst"]
       ELSE [errors |-> errors + 1, pc |-> "listen"]
  ELSE [errors |-> 0, pc |-> "wake"]

\* the counter reset only for a text that starts with the wake word
OnListenResult_resetOnWake(errors, ret) ==
  IF ret = None
  THEN IF errors + 1 >= max_consecutive_errors
       THEN [errors |-> errors + 1, pc |-> "burst"]
       ELSE [errors |-> errors + 1, pc |-> "listen"]
  ELSE [errors |-> IF StartsWith(ret, wake_word) THEN 0 ELSE errors, pc |-> "wake"]

\* run(), lines 351-360: what the loop does with the value listen_for_command
\* returned: the new counter and where control goes
OnListenResult(errors, ret) ==
  IF ret = None
  THEN IF errors + 1 >= max_consecutive_errors
       THEN [errors |-> errors + 1, pc |-> "burst"]
       ELSE [errors |-> errors + 1, pc |-> "listen"]
  ELSE [errors |-> 0, pc |-> "wake"]

\* run(), lines 347-360: the loop test, listen_for_command, and the counting
Listen ==
  /\ pc = "listen"
  /\ IF should_quit
     THEN /\ pc' = "done"
          /\ UNCHANGED <<loopVars, consecutive_errors, said, opened, result, newsReq,
                         aiReq, failure, interrupted, prevErrors, noneRun, startCount,
                         excRun, sayers>>
     ELSE \E out \in ListenOutcomes :
          \E heard \in {listen_for_command(is_listening, out)} :
          \E next \in {OnListenResult(consecutive_errors, heard.ret)} :
                /\ out.kind = "calib_error" => ~is_listening
                /\ is_listening' = heard.is_listening
                /\ command' = heard.ret
                /\ consecutive_errors' = next.errors
                /\ pc' = next.pc
                /\ said' = <<>>
                /\ opened' = <<>>
                /\ result' = "none"
                /\ newsReq' = "none"
                /\ aiReq' = None
                /\ failure' = IF heard.ret = None THEN "listen" ELSE "none"
                /\ prevErrors' = consecutive_errors
                /\ noneRun' = IF heard.ret # None THEN 0
                               ELSE IF consecutive_errors = 0 THEN 1
                               ELSE noneRun + 1
                /\ startCount' = IF heard.ret # None \/ consecutive_errors = 0 THEN 0
                                 ELSE IF noneRun = 0 THEN consecutive_errors
                                 ELSE startCount
                /\ excRun' = IF heard.ret = None THEN 0 ELSE excRun
                /\ UNCHANGED <<should_quit, client, newsapi_key, interrupted, sayers, call>>

\* the notice and the cooldown without the reset of the counter
Burst_noReset ==
  /\ pc = "burst"
  /\ said' = speak(said, U("I'm having trouble hearing you. Please check your microphone.",
                           <<>>))
  /\ consecutive_errors' = consecutive_errors
  /\ pc' = "listen"
  /\ UNCHANGED <<loopVars, opened, result, newsReq, aiReq, failure, interrupted,
                 prevErrors, noneRun, startCount, excRun, sayers>>

\* run(), lines 354-358: the notice and the cooldown after too many failed listens
Burst ==
  /\ pc = "burst"
  /\ said' = speak(said, U("I'm having trouble hearing you. Please check your microphone.",
                           <<>>))
  /\ consecutive_errors' = 0
  /\ pc' = "listen"
  /\ UNCHANGED <<loopVars, opened, result, newsReq, aiReq, failure, interrupted,
                 prevErrors, noneRun, startCount, excRun, sayers>>

\* run(), line 364
ActualCommand(cmd) == Strip(Replace(cmd, wake_word, <<>>))

\* the wake word accepted anywhere in the text
WakeCheck_anywhere(cmd) ==
  IF Contains(wake_word, cmd)
  THEN IF ActualCommand(cmd) # <<>> THEN "dispatch" ELSE "prompt"
  ELSE "discard"

\* the empty remainder dispatched like any command
WakeCheck_noEmptyTest(cmd) ==
  IF StartsWith(cmd, wake_word) THEN "dispatch" ELSE "discard"

\* run(), lines 362-374: the wake-word gate: "dispatch", "prompt" or "discard"
WakeCheck(cmd) ==
  IF StartsWith(cmd, wake_word)
  THEN IF ActualCommand(cmd) # <<>> THEN "dispatch" ELSE "prompt"
  ELSE "discard"

Wake ==
  /\ pc = "wake"
  /\ \E gate \in {WakeCheck(command)}, tts \in TtsOutcomes :
       /\ pc' = IF gate = "dispatch" THEN "dispatch" ELSE "listen"
       /\ said' = IF gate = "prompt"
                  THEN speak(said, U("Yes, how can I help you?", <<>>))
                  ELSE said
       /\ failure' = IF gate = "prompt" /\ tts = "raise" THEN "tts" ELSE failure
       /\ excRun' = IF gate = "dispatch" THEN excRun ELSE 0
  /\ prevErrors' = 0
  /\ UNCHANGED <<loopVars, consecutive_errors, opened, result, newsReq, aiReq,
                 interrupted, noneRun, startCount, sayers>>

\* no except Exception clause around the turn
OnTurnResult_uncaught(res) ==
  IF res = "raise" THEN [pc |-> "aborted", should_quit |-> FALSE]
  ELSE IF res = "quit" THEN [pc |-> "done", should_quit |-> TRUE]
  ELSE [pc |-> "listen", should_quit |-> FALSE]

\* the result of process_command not looked at
OnTurnResult_ignoreQuit(res) ==
  IF res = "raise" THEN [pc |-> "exc", should_quit |-> FALSE]
  ELSE [pc |-> "listen", should_quit |-> FALSE]

\* run(), lines 368-372 and 380: where control goes when process_command ends
OnTurnResult(res) ==
  IF res = "raise" THEN [pc |-> "exc", should_quit |-> FALSE]
  ELSE IF res = "quit" THEN [pc |-> "done", should_quit |-> TRUE]
  ELSE [pc |-> "listen", should_quit |-> FALSE]

\* the failure a turn met, if any: an exception out of process_command, a
\* failing adapter that its handler turned into a spoken notice, or a failing
\* speech engine, which _speak_sync logs
TurnFailure(turn, env) ==
  IF turn.result = "raise" THEN "handler"
  ELSE IF turn.news # "none" /\ ~get_news(<<>>, turn.news, env.key, env.news).ret
  THEN "news"
  ELSE IF turn.ai # None /\ (~env.client \/ env.ai.kind # "text") THEN "ai"
  ELSE IF turn.said # <<>> /\ env.tts = "raise" THEN "tts"
  ELSE "none"

\* run(), lines 368-372: process_command and what the loop does with its result
Dispatch ==
  /\ pc = "dispatch"
  /\ \E actual_command \in {ActualCommand(command)} :
     \E env \in Envs(client, newsapi_key) :
     \E turn \in {process_command(actual_command, env)} :
     \E next \in {OnTurnResult(turn.result)} :
           /\ turn.result = "raise" => excRun < MaxExceptionTurns
           /\ said' = said \o turn.said
           /\ opened' = turn.opened
           /\ result' = turn.result
           /\ newsReq' = turn.news
           /\ aiReq' = turn.ai
           /\ failure' = TurnFailure(turn, env)
           /\ should_quit' = next.should_quit
           /\ pc' = next.pc
           /\ excRun' = IF turn.result = "raise" THEN excRun ELSE 0
  /\ UNCHANGED <<is_listening, client, newsapi_key, command,
                 consecutive_errors, interrupted, prevErrors, noneRun, startCount, sayers, call>>

\* run(), lines 380-386: the loop's except Exception clause: the new counter,
\* whether the notice is spoken, and where control goes
OnLoopException(errors) ==
  IF errors + 1 >= max_consecutive_errors
  THEN [errors |-> 0, notice |-> TRUE, pc |-> "listen"]
  ELSE [errors |-> errors + 1, notice |-> FALSE, pc |-> "listen"]

ExcHandler ==
  /\ pc = "exc"
  /\ LET next == OnLoopException(consecutive_errors)
     IN  /\ consecutive_errors' = next.errors
         /\ said' = IF next.notice
                    THEN speak(said, U("I'm experiencing technical difficulties. Restarting...",
                                       <<>>))
                    ELSE said
         /\ pc' = next.pc
  /\ excRun' = excRun + 1
  /\ UNCHANGED <<loopVars, opened, result, newsReq, aiReq, failure, interrupted,
                 prevErrors, noneRun, startCount, sayers>>

\* the statements of run() that lie in the body of the try: a KeyboardInterrupt
\* raised there reaches the except KeyboardInterrupt clause
InTryBody(at) == at \in {"listen", "burst", "wake", "dispatch"}

\* a KeyboardInterrupt raised while run() is at pc: in the try body it is
\* caught (line 376); in the announcements before the try and in the except
\* Exception clause no handler of run() covers it and it leaves run()
Interrupt ==
  /\ pc \in {"announce1", "announce2", "listen", "burst", "wake", "dispatch", "exc"}
  /\ ~interrupted
  /\ interrupted' = TRUE
  /\ pc' = IF InTryBody(pc) THEN "shutdown" ELSE "aborted"
  /\ UNCHANGED <<loopVars, consecutive_errors, said, opened, result, newsReq, aiReq,
                 failure, prevErrors, noneRun, startCount, excRun, sayers>>

\* run(), lines 376-379
Shutdown ==
  /\ pc = "shutdown"
  /\ said' = speak(said, U("Shutting down...", <<>>))
  /\ pc' = "done"
  /\ UNCHANGED <<loopVars, consecutive_errors, opened, result, newsReq, aiReq, failure,
                 interrupted, prevErrors, noneRun, startCount, excRun, sayers>>

Next ==
  \/ Announce1
  \/ Announce2
  \/ Listen
  \/ Burst
  \/ Wake
  \/ Dispatch
  \/ ExcHandler
  \/ Interrupt
  \/ Shutdown

Spec == Init /\ [][Next]_vars

(***************************************************************************)
(* Speech output: speak and _speak_sync under synchronous and asynchronous *)
(* calls.  A flow is one execution of _speak_sync: it is at "say" while in *)
(* engine.say, at "runAndWait" while in engine.runAndWait, else "idle".    *)
(***************************************************************************)

\* the texts handed to speak()
SpeakTexts == {"", "Opening Google", "Goodbye! Have a great day!"}

\* speak(), lines 113-123: the flow that executes _speak_sync(text): none for
\* an empty text, a new thread in async mode, the caller itself otherwise
SpeakFlows(text, async_mode) ==
  IF text = "" THEN {}
  ELSE IF async_mode THEN {t \in 1..MaxThreads : sayers[t].pc = "idle"}
  ELSE {0}

\* speak(text, async_mode), called by the main flow when it is not itself
\* inside a synchronous _speak_sync
SpeakCall ==
  /\ sayers[0].pc = "idle"
  /\ \E text \in SpeakTexts, async_mode \in BOOLEAN :
       \/ /\ SpeakFlows(text, async_mode) = {}
          /\ text = ""
          /\ UNCHANGED sayers
       \/ \E t \in SpeakFlows(text, async_mode) :
            sayers' = [sayers EXCEPT ![t] = [pc |-> "say", text |-> text]]
  /\ UNCHANGED <<pc, should_quit, is_listening, client, newsapi_key, consecutive_errors,
                 command, said, opened, result, newsReq, aiReq, failure, interrupted,
                 prevErrors, noneRun, startCount, excRun, call>>

\* _speak_sync, lines 127-131: where a flow goes after engine.say
AfterSay(flow, outcome) ==
  IF outcome = "raise" THEN Idle ELSE [pc |-> "runAndWait", text |-> flow.text]

\* _speak_sync, line 128: engine.say(text) returns or raises
Say(t) ==
  /\ sayers[t].pc = "say"
  /\ \E outcome \in TtsOutcomes : sayers' = [sayers EXCEPT ![t] = AfterSay(sayers[t], outcome)]
  /\ UNCHANGED <<pc, should_quit, is_listening, client, newsapi_key, consecutive_errors,
                 command, said, opened, result, newsReq, aiReq, failure, interrupted,
                 prevErrors, noneRun, startCount, excRun, call>>

\* _speak_sync, lines 129-131: engine.runAndWait() returns or raises; either
\* way _speak_sync ends
RunAndWait(t) ==
  /\ sayers[t].pc = "runAndWait"
  /\ sayers' = [sayers EXCEPT ![t] = Idle]
  /\ UNCHANGED <<pc, should_quit, is_listening, client, newsapi_key, consecutive_errors,
                 command, said, opened, result, newsReq, aiReq, failure, interrupted,
                 prevErrors, noneRun, startCount, excRun, call>>

InitSpeak == Init /\ client /\ newsapi_key

NextSpeak ==
  \/ SpeakCall
  \/ \E t \in 0..MaxThreads : Say(t)
  \/ \E t \in 0..MaxThreads : RunAndWait(t)

SpecSpeak == InitSpeak /\ [][NextSpeak]_vars

(***************************************************************************)
(* Properties                                                              *)
(***************************************************************************)

InSeq(u, log) == \E i \in 1..Len(log) : log[i] = u

HearingNotice == U("I'm having trouble hearing you. Please check your microphone.", <<>>)

TechnicalNotice == U("I'm experiencing technical difficulties. Restarting...", <<>>)

ShutdownNotice == U("Shutting down...", <<>>)

ClarifyingPrompt == U("Yes, how can I help you?", <<>>)

GoodbyeReply == U("Goodbye! Have a great day!", <<>>)

\* C1: counted from consecutive_errors = 0, fewer than 5 back-to-back listens
\* that return None never lead to the "trouble hearing you" notice; the 5th
\* leads to it, and once it is spoken it is the only text of the iteration,
\* consecutive_errors is 0 and the loop is back at listening, not ended.
C1_FiveFailedListens ==
  (startCount = 0 /\ ~interrupted) =>
    /\ noneRun <= 5
    /\ noneRun < 5 => (pc # "burst" /\ ~InSeq(HearingNotice, said))
    /\ noneRun = 5 =>
         \/ pc = "burst" /\ ~InSeq(HearingNotice, said)
         \/ /\ pc = "listen"
            /\ said = <<HearingNotice>>
            /\ consecutive_errors = 0
            /\ ~should_quit

C1_Witness ==
  /\ pc = "listen"
  /\ noneRun = 5
  /\ startCount = 0
  /\ said = <<HearingNotice>>
  /\ consecutive_errors = 0

\* C2: right after listen_for_command returned a recognized text, and until
\* the turn is dispatched, consecutive_errors is 0, whatever it was before and
\* whether or not the text starts with the wake word.
C2_RecognitionResetsCounter ==
  (pc \in {"wake", "dispatch"} /\ command # None) => consecutive_errors = 0

C2_Witness ==
  /\ pc = "wake"
  /\ prevErrors = 4
  /\ ~StartsWith(command, wake_word)
  /\ consecutive_errors = 0

\* C3: a recognized text that does not begin with "jarvis" is discarded:
\* process_command is not invoked, nothing is spoken, no URL is opened, no news
\* or AI request is made, should_quit stays false, and the loop does not leave
\* the listening path.
C3_NoWakeWordDiscarded ==
  (command # None /\ ~StartsWith(command, wake_word)) =>
    /\ result = "none"
    /\ opened = <<>>
    /\ newsReq = "none"
    /\ aiReq = None
    /\ ~should_quit
    /\ pc \in {"wake", "listen", "shutdown", "done"}
    /\ pc = "done" => interrupted
    /\ ~interrupted => said = <<>>

C3_Witness ==
  /\ pc = "listen"
  /\ command = Join(<<word.hey, word.jarvis, word.stop>>)
  /\ said = <<>>
  /\ result = "none"

\* C4: run() ends only through a turn whose process_command returned "quit"
\* or through a KeyboardInterrupt; after a failure of listening, of a handler,
\* of an adapter or of the speech engine the loop is still running.
C4_OnlyQuitOrInterruptEnds ==
  /\ pc \in {"done", "aborted"} => (interrupted \/ (result = "quit" /\ should_quit))
  /\ (failure # "none" /\ ~interrupted /\ result # "quit") => pc \in {"listen", "burst", "exc"}

C4_Witness ==
  /\ pc = "listen"
  /\ failure = "handler"
  /\ result = "raise"
  /\ ~interrupted

\* C5: once a KeyboardInterrupt was raised, in whatever state of run(), and
\* run() has ended, the last text spoken is "Shutting down...".
C5_InterruptSpeaksShutdown ==
  (interrupted /\ pc \in {"done", "aborted"}) =>
    (said # <<>> /\ said[Len(said)] = ShutdownNotice)

\* C6: a turn whose process_command returned "quit" has spoken the goodbye
\* reply, set should_quit and ended the loop, after which no listen is
\* possible; a turn that returned "continue" leaves should_quit false and is
\* followed by listening.
C6_ListenAgainUnlessQuit ==
  /\ result = "quit" => (pc = "done" /\ should_quit /\ InSeq(GoodbyeReply, said))
  /\ (result = "continue" /\ ~interrupted) => (pc = "listen" /\ ~should_quit)
  /\ InSeq(GoodbyeReply, said) => result = "quit"
  /\ should_quit => (pc = "done" /\ result = "quit")
  /\ pc = "done" => ~ENABLED Listen

C6_Witness ==
  /\ pc = "done"
  /\ result = "quit"
  /\ should_quit
  /\ ~interrupted

\* the rules of the cascade in their order, and whether each one's test is
\* satisfied by a command
RuleNames == <<"website", "play", "news", "time", "date", "quit">>

RuleMatches(rule, c) ==
  CASE rule = "website" -> \E i \in 1..Len(website_commands) :
                              Contains(website_commands[i].cmd, c)
    [] rule = "play" -> StartsWith(c, play_trigger)
    [] rule = "news" -> Contains(kw_news, c)
    [] rule = "time" -> Contains(kw_time, c)
    [] rule = "date" -> Contains(kw_date, c)
    [] rule = "quit" -> \E i \in 1..Len(exit_commands) : Contains(exit_commands[i], c)

\* the earliest rule a command satisfies, "ai" when it satisfies none
EarliestRule(c) ==
  IF \E i \in 1..Len(RuleNames) : RuleMatches(RuleNames[i], c)
  THEN RuleNames[CHOOSE i \in 1..Len(RuleNames) :
                   /\ RuleMatches(RuleNames[i], c)
                   /\ \A j \in 1..(i - 1) : ~RuleMatches(RuleNames[j], c)]
  ELSE "ai"

\* the handlers whose effects the current iteration shows
HandlersRun ==
  {h \in {"website", "play", "news", "time", "date", "quit", "ai"} :
     CASE h = "website" -> \E i \in 1..Len(website_commands) :
                              InSeq(U(website_commands[i].message, <<>>), said)
       [] h = "play" -> \E i \in 1..Len(said) :
                           said[i].text \in {"Please specify a song to play.",
                                             "Playing {song_query}",
                                             "Sorry, I couldn't find {song_query} in my music library."}
       [] h = "news" -> newsReq # "none"
       [] h = "time" -> \E i \in 1..Len(said) : said[i].text = "The current time is {current_time}"
       [] h = "date" -> \E i \in 1..Len(said) : said[i].text = "Today is {current_date}"
       [] h = "quit" -> InSeq(GoodbyeReply, said)
       [] h = "ai" -> aiReq # None}

\* C7: of the rules website > "play" > "news" > "time" > "date" > exit phrase a
\* dispatched command satisfies, only the handler of the earliest runs, and the
\* AI fallback runs exactly when it satisfies none; "news at this time" fetches
\* general news.
C7_FirstMatchWins ==
  result # "none" =>
    /\ HandlersRun = {EarliestRule(ActualCommand(command))}
    /\ ActualCommand(command) = Join(<<word.news, word.at, word.this, word.time>>)
         => newsReq = "general"

C7_Witness ==
  /\ result = "continue"
  /\ ActualCommand(command) = Join(<<word.news, word.at, word.this, word.time>>)
  /\ RuleMatches("time", ActualCommand(command))
  /\ HandlersRun = {"news"}

\* the text with the leading wake token stripped and the rest trimmed
Remainder(text) == Strip(SubSeq(text, Len(wake_word) + 1, Len(text)))

\* C8: a recognized text that begins with the wake token and has an empty
\* remainder is answered with "Yes, how can I help you?" alone:
\* process_command is not invoked, should_quit stays false and the loop is
\* back at listening.
C8_WakeWordAlonePrompts ==
  (command # None /\ StartsWith(command, wake_word) /\ Remainder(command) = <<>>) =>
    /\ result = "none"
    /\ opened = <<>>
    /\ ~should_quit
    /\ pc \in {"wake", "listen", "shutdown", "done"}
    /\ pc = "done" => interrupted
    /\ pc = "listen" => said = <<ClarifyingPrompt>>

C8_Witness ==
  /\ pc = "listen"
  /\ command = Join(<<word.jarvis, <<>>>>)
  /\ said = <<ClarifyingPrompt>>
  /\ result = "none"

\* C9: when 5 consecutive turns have each ended in the loop's except clause,
\* the "technical difficulties" notice has been spoken and consecutive_errors
\* is back at 0.
C9_ExceptionBurst ==
  (pc = "listen" /\ excRun >= 5 /\ result = "raise") =>
    (InSeq(TechnicalNotice, said) /\ consecutive_errors = 0)

\* C10: at most one execution of _speak_sync is inside engine.say or
\* engine.runAndWait at any time.
C10_OneRenderAtATime ==
  Cardinality({t \in 0..MaxThreads : sayers[t].pc # "idle"}) <= 1

(***************************************************************************)
(* The methods called on their own.  One behaviour is one call on a        *)
(* freshly constructed assistant; call records the arguments and the       *)
(* effect of the call.                                                     *)
(***************************************************************************)

\* everything but call
runVars ==
  <<pc, should_quit, is_listening, client, newsapi_key, consecutive_errors, command,
    said, opened, result, newsReq, aiReq, failure, interrupted,
    prevErrors, noneRun, startCount, excRun, sayers>>

\* the upper-case letter of each lower-case letter
ToUpper == [c \in {LowerCase[i] : i \in 1..26} |->
              UpperCase[CHOOSE i \in 1..26 : LowerCase[i] = c]]

RECURSIVE Upper(_)
Upper(s) ==
  IF s = <<>> THEN <<>>
  ELSE <<IF Head(s) \in DOMAIN ToUpper THEN ToUpper[Head(s)] ELSE Head(s)>> \o Upper(Tail(s))

\* the non-empty substrings of s
Substrings(s) == {SubSeq(s, i, j) : i \in 1..Len(s), j \in 1..Len(s)} \ {<<>>}

CanonicalNames == {music_library[i].name : i \in 1..Len(music_library)}

AliasNames ==
  UNION {{song_aliases[i].aliases[k] : k \in 1..Len(song_aliases[i].aliases)} :
           i \in 1..Len(song_aliases)}

\* a name as a user may say or type it: other case, blanks around it
Spellings(s) ==
  {s, Upper(s), <<Upper(<<Head(s)>>)[1]>> \o Tail(s),
   <<" ">> \o s, s \o <<" ", " ">>, <<"\t">> \o Upper(s) \o <<" ">>}

\* queries no library name or alias is related to
UnknownQueries ==
  { <<"x","y","z">>, <<"h","e","l","l","o"," ","w","o","r","l","d">>, <<"q">>, <<"b","o","h","e","m","i","a","n"," ","r","h","a","p","s","o","d","y">>,
    <<"T","h","r","i","l","l","e","r">>, <<" ","z","z"," ">> }

\* queries that contain library names
LongerQueries ==
  { <<"s","k","y","f","a","l","l"," ","b","y"," ","a","d","e","l","e">>, <<"t","h","e"," ","s","o","n","g"," ","s","u","g","a","r"," ","p","l","e","a","s","e">>, <<"p","e","r","f","e","c","t"," ","b","e","l","i","e","v","e","r">>,
    <<"b","e","l","i","e","v","e","r"," ","p","e","r","f","e","c","t">>, <<"F","a","d","e","d"," ","S","k","y","f","a","l","l">>, <<"d","u","s","k"," ","t","o"," ","d","a","w","n"," ","r","e","m","i","x">>,
    <<"s","u","g","a","r","y">>, <<"s","h","a","p","e"," ","o","f"," ","u","2">> }

\* the queries find_song is called with
SongQueries ==
  {<<>>, <<" ">>, <<" ", "\t", " ">>}
    \cup UNION {Substrings(n) : n \in CanonicalNames \cup AliasNames}
    \cup UNION {Spellings(n) : n \in CanonicalNames \cup AliasNames}
    \cup UnknownQueries \cup LongerQueries

\* find_song(song_query) called on its own
CallFindSong ==
  /\ call = NoCall
  /\ \E song_query \in SongQueries :
       call' = [op |-> "find_song", arg |-> song_query, out |-> find_song(song_query)]
  /\ UNCHANGED runVars

\* the commands process_command is called with
Commands ==
  { <<>>, <<"p","l","a","y">>, <<"P","l","a","y">>, <<" ","p","l","a","y"," "," ">>, <<"P","L","A","Y">>,
    <<"p","l","a","y"," ","s","k","y","f","a","l","l">>, <<"P","l","a","y"," ","S","k","y","f","a","l","l">>, <<"p","l","a","y"," "," ","s","u","g","a","r"," ">>,
    <<"p","l","a","y"," ","d","u","s","k"," ","t","o"," ","d","a","w","n">>, <<"p","l","a","y"," ","t","h","e"," ","p","l","a","y","l","i","s","t">>, <<"p","l","a","y"," ","d","i","s","p","l","a","y">>,
    <<"p","l","a","y","l","i","s","t">>, <<"p","l","a","y"," ","s","o","m","e"," ","u","n","k","n","o","w","n"," ","s","o","n","g">>, <<"p","l","a","y"," ","t","h","e"," ","n","e","w","s">>,
    <<"p","l","a","y"," ","m","u","s","i","c"," ","a","n","d"," ","o","p","e","n"," ","g","o","o","g","l","e">>, <<"p","l","e","a","s","e"," ","p","l","a","y"," ","s","u","g","a","r">>,
    <<"w","h","a","t"," ","t","i","m","e"," ","i","s"," ","i","t">>, <<"t","e","l","l"," ","m","e"," ","a"," ","j","o","k","e">>, <<"s","t","o","p">> }

\* process_command(command) called on its own
CallProcessCommand ==
  /\ call = NoCall
  /\ \E command0 \in Commands : \E env \in Envs(client, newsapi_key) :
       call' = [op |-> "process_command", arg |-> command0, env |-> env,
                out |-> process_command(command0, env)]
  /\ UNCHANGED runVars

\* texts of a response of the model
AiTexts ==
  { <<>>, <<"H","e","l","l","o"," "," "," ","t","h","e","r","e">>, <<"R","e","a","l","l","y","?">>, <<"D","o","n","e","!">>, <<"*","*">>,
    <<" "," ","I","t"," ","i","s"," ","*","s","u","n","n","y","*"," "," ","t","o","d","a","y"," ">>, <<"#"," ","T","i","t","l","e","\n",Backtick,"c","o","d","e",Backtick," ","h","e","r","e">>, <<"o","n","e","\t","t","w","o">> }

\* what generate_content does, with more texts
AiAnswers == AiOutcomes \cup {[kind |-> "text", text |-> t] : t \in AiTexts}

\* ai_process(command) called on its own
CallAiProcess ==
  /\ call = NoCall
  /\ \E out \in AiAnswers :
       call' = [op |-> "ai_process", arg |-> <<"t","e","l","l"," ","m","e"," ","a"," ","j","o","k","e">>, client |-> client,
                adapter |-> out,
                out |-> ai_process(<<"t","e","l","l"," ","m","e"," ","a"," ","j","o","k","e">>, client, out)]
  /\ UNCHANGED runVars

\* AIClient().generate_response(prompt) called on its own
CallGenerateResponse ==
  /\ call = NoCall
  /\ \E out \in AiAnswers :
       call' = [op |-> "generate_response", arg |-> <<"t","e","l","l"," ","m","e"," ","a"," ","j","o","k","e">>,
                client |-> AIClient_init(client) = "ok", adapter |-> out,
                out |-> IF AIClient_init(client) = "ok"
                        THEN generate_response(<<"t","e","l","l"," ","m","e"," ","a"," ","j","o","k","e">>, out)
                        ELSE U("<ValueError>", <<>>)]
  /\ UNCHANGED runVars

\* get_news(category) called on its own
CallGetNews ==
  /\ call = NoCall
  /\ \E category \in {"general", "technology", "sports"} : \E out \in NewsOutcomes :
       call' = [op |-> "get_news", arg |-> category, key |-> newsapi_key,
                adapter |-> out,
                out |-> get_news(<<>>, category, newsapi_key, out)]
  /\ UNCHANGED runVars

InitCalls == Init

NextCalls ==
  \/ CallFindSong
  \/ CallProcessCommand
  \/ CallAiProcess
  \/ CallGenerateResponse
  \/ CallGetNews

SpecCalls == InitCalls /\ [][NextCalls]_vars

(***************************************************************************)
(* Claims about the song resolver                                          *)
(***************************************************************************)

\* the query as the resolver compares it: lower-cased and trimmed
SongKey(song_query) == Strip(Lower(song_query))

\* the url of the library entry called name
UrlOf(name) == LibraryUrl(name)

\* no canonical name and no alias equals the key, and no canonical name
\* contains it or is contained in it
Unrelated(key) ==
  /\ key \notin CanonicalNames \cup AliasNames
  /\ \A n \in CanonicalNames : ~Contains(key, n) /\ ~Contains(n, key)

\* C11: find_song returns None, and raises nothing, for the empty query, for
\* a query of blanks only, and for every query that equals no canonical name
\* and no alias and is in no substring relation with a canonical name.
C11_NoMatchIsNone ==
  (/\ call.op = "find_song"
   /\ SongKey(call.arg) = <<>> \/ Unrelated(SongKey(call.arg)))
    => call.out = "None"

\* C12: a query that, lower-cased and trimmed, equals a canonical name or an
\* alias is resolved to the URL of exactly that entry, whatever substring
\* relations it has with other entries.
C12_ExactOrAliasMatch ==
  call.op = "find_song" =>
    /\ \A i \in 1..Len(music_library) :
         SongKey(call.arg) = music_library[i].name => call.out = music_library[i].url
    /\ \A i \in 1..Len(song_aliases) : \A k \in 1..Len(song_aliases[i].aliases) :
         SongKey(call.arg) = song_aliases[i].aliases[k]
           => call.out = UrlOf(song_aliases[i].song)

\* an alias that is no canonical name, typed in capitals with blanks around
\* it, was resolved to its entry
C12_Witness ==
  /\ call.op = "find_song"
  /\ call.arg # SongKey(call.arg)
  /\ SongKey(call.arg) = <<"d","u","s","k"," ","t","o"," ","d","a","w","n">>
  /\ call.out = UrlOf(<<"d","u","s","k"," ","t","i","l","l"," ","d","a","w","n">>)

\* the entries whose canonical name contains the key
Hosts(key) == {i \in 1..Len(music_library) : Contains(key, music_library[i].name)}

\* C13: a query that is a substring of exactly one canonical name, and
\* equals no canonical name and no alias, is resolved to the URL of that
\* entry: no other entry is returned in its place.
C13_UniqueSubstringMatch ==
  \A i \in 1..Len(music_library) :
      (/\ call.op = "find_song"
       /\ SongKey(call.arg) \notin CanonicalNames \cup AliasNames
       /\ Hosts(SongKey(call.arg)) = {i})
        => call.out = music_library[i].url

\* "dawn" is part of the sixth canonical name only and was resolved to it
C13_Witness ==
  /\ call.op = "find_song"
  /\ call.arg = <<"d","a","w","n">>
  /\ Hosts(call.arg) = {6}
  /\ call.out = music_library[6].url

(***************************************************************************)
(* Claims about the music handler                                          *)
(***************************************************************************)

\* the command as process_command looks at it
Normalized(command0) == Strip(Lower(command0))

\* the command with the leading "play" stripped and the rest trimmed
AfterTrigger(c) ==
  Strip([k \in 1..(Len(c) - Len(play_trigger)) |-> c[k + Len(play_trigger)]])

\* the command reaches the music handler
IsPlayCommand(c) == StartsWith(c, play_trigger) /\ WebsiteMatch(c) = 0

\* C14: a command that starts with "play" and has nothing left once the
\* trigger is stripped and the rest trimmed gets the reply "Please specify a
\* song to play." and nothing else: find_song is not called, no URL is
\* opened, and process_command returns "continue".
C14_EmptySongQueryPrompts ==
  (/\ call.op = "process_command"
   /\ IsPlayCommand(Normalized(call.arg))
   /\ AfterTrigger(Normalized(call.arg)) = <<>>)
    => /\ call.out.said = <<U("Please specify a song to play.", <<>>)>>
       /\ call.out.song = None
       /\ call.out.opened = <<>>
       /\ call.out.result = "continue"
       /\ call.out.news = "none" /\ call.out.ai = None

\* " play  " was answered with the prompt
C14_Witness ==
  /\ call.op = "process_command"
  /\ call.arg = <<" ","p","l","a","y"," "," ">>
  /\ AfterTrigger(Normalized(call.arg)) = <<>>
  /\ call.out.said = <<U("Please specify a song to play.", <<>>)>>
  /\ call.out.result = "continue"

\* C20: for every command that starts with "play" and names a song, the
\* query passed to find_song, spoken in the reply and put in the YouTube
\* search is the command with only the leading "play" stripped and the rest
\* trimmed; a later "play" inside the command is kept ("play the playlist"
\* looks up "the playlist").
C20_OnlyLeadingTriggerStripped ==
  (/\ call.op = "process_command"
   /\ IsPlayCommand(Normalized(call.arg))
   /\ AfterTrigger(Normalized(call.arg)) # <<>>)
    => /\ call.out.song = AfterTrigger(Normalized(call.arg))
       /\ call.out.said[1].arg = AfterTrigger(Normalized(call.arg))
       /\ \A i \in 1..Len(call.out.opened) :
            call.out.opened[i].q # <<>>
              => call.out.opened[i] = YoutubeSearch(AfterTrigger(Normalized(call.arg)))
       /\ call.arg = <<"p","l","a","y"," ","t","h","e"," ","p","l","a","y","l","i","s","t">>
            => call.out.song = <<"t","h","e"," ","p","l","a","y","l","i","s","t">>

(***************************************************************************)
(* Claims about the AskAI handler                                          *)
(***************************************************************************)

\* generate_content answered, and its text holds more than markup and blanks
Successful(o) ==
  /\ o.kind = "text"
  /\ \E k \in 1..Len(o.text) : ~IsSpace(o.text[k]) /\ o.text[k] \notin {"*", "#", Backtick}

\* a reply without emphasis marks and without runs of blanks, tabs or line
\* breaks, that ends in ".", "!" or "?"
Polished(u) ==
  /\ u.text = "" /\ u.arg # <<>>
  /\ \A k \in 1..Len(u.arg) : u.arg[k] # "*"
  /\ \A k \in 1..Len(u.arg) :
       IsSpace(u.arg[k]) => /\ u.arg[k] = " "
                            /\ 1 < k /\ k < Len(u.arg)
                            /\ ~IsSpace(u.arg[k + 1])
  /\ u.arg[Len(u.arg)] \in {".", "!", "?"}

\* "**Hello** there" is answered "Hello there."
HelloExample(o, u) ==
  o.text = <<"*","*","H","e","l","l","o","*","*"," ","t","h","e","r","e">> => u = Reply(<<"H","e","l","l","o"," ","t","h","e","r","e",".">>)

\* C15: the reply to a successful response has the emphasis marks removed and
\* the runs of whitespace collapsed, and ends in ".", "!" or "?" (a period is
\* appended otherwise), so that "**Hello** there" gives "Hello there."; on the
\* path process_command -> ai_process as well as in AIClient._clean_response.
C15_ReplyIsPolished ==
  /\ (/\ call.op = "generate_response"
      /\ call.client /\ Successful(call.adapter))
       => Polished(call.out) /\ HelloExample(call.adapter, call.out)
  /\ (/\ call.op = "ai_process"
      /\ call.client /\ Successful(call.adapter))
       => Polished(call.out) /\ HelloExample(call.adapter, call.out)
  /\ (/\ call.op = "process_command"
      /\ call.out.ai # None
      /\ call.env.client /\ Successful(call.env.ai))
       => /\ Len(call.out.said) = 2
          /\ Polished(call.out.said[2])
          /\ HelloExample(call.env.ai, call.out.said[2])

\* generate_content raised (an error of the service, a timeout), or answered
\* without a text, or with the empty text
AdapterFailed(o) == o.kind \in {"raise", "none"} \/ (o.kind = "text" /\ o.text = <<>>)

NotAvailableReply == U("AI functionality is not available. Please check your API key.", <<>>)

TroubleReply == U("I'm having trouble processing that request right now.", <<>>)

\* C16: the AskAI handler returns a reply and lets no exception out: every
\* failure of the adapter (it raises, times out, answers without a text or
\* with an empty one) gives the fixed apology, and without an AI client the
\* fixed "not available" reply is given whatever the adapter would do.
C16_FailuresGetTheApology ==
  /\ call.op = "ai_process" =>
       /\ ~call.client => call.out = NotAvailableReply
       /\ (call.client /\ AdapterFailed(call.adapter)) => call.out = TroubleReply
  /\ (call.op = "process_command" /\ call.out.ai # None) =>
       /\ call.out.result = "continue"
       /\ ~call.env.client
            => call.out.said = <<U("Let me think about that...", <<>>), NotAvailableReply>>
       /\ (call.env.client /\ AdapterFailed(call.env.ai))
            => call.out.said = <<U("Let me think about that...", <<>>), TroubleReply>>
  /\ (call.op = "generate_response" /\ call.client /\ AdapterFailed(call.adapter)) =>
       call.out \in
         {U("I apologize, but I'm having trouble processing your request right now.", <<>>),
          U("I'm sorry, I couldn't generate a response.", <<>>)}

(***************************************************************************)
(* Claims about get_news                                                   *)
(***************************************************************************)

\* the news service answered the request of a configured assistant
NewsAnswered == call.op = "get_news" /\ call.key /\ call.adapter.kind = "ok"

\* C17: when the news service answers with no article, get_news speaks the
\* notice "No news articles found at the moment." and nothing else (no
\* introduction, no headline), returns False and raises nothing.
C17_NoArticlesNotice ==
  (NewsAnswered /\ Len(call.adapter.articles) = 0)
    => /\ call.out.said = <<U("No news articles found at the moment.", <<>>)>>
       /\ call.out.ret = FALSE

C17_Witness ==
  /\ NewsAnswered
  /\ call.adapter.articles = <<>>
  /\ Len(call.out.said) = 1
  /\ ~call.out.ret

\* the utterance of the i-th headline
HeadlineOf(articles, i) == U("News {i}: {title}", <<Str(i), TitleOf(articles[i])>>)

\* C18: when the news service answers with n >= 1 articles, get_news first
\* speaks one introduction that names min(3, n), then exactly min(3, n)
\* headlines, those of the first min(3, n) articles in their order, and
\* returns True: nothing is spoken before the introduction and no headline
\* after the third.
C18_IntroThenTopThree ==
  (NewsAnswered /\ Len(call.adapter.articles) >= 1)
    => \E k \in 1..3 :
         /\ k <= Len(call.adapter.articles)
         /\ k = 3 \/ k = Len(call.adapter.articles)
         /\ Len(call.out.said) = k + 1
         /\ call.out.said[1] = U("Here are the top {n} headlines:", <<Str(k)>>)
         /\ \A i \in 1..k : call.out.said[i + 1] = HeadlineOf(call.adapter.articles, i)
         /\ call.out.ret = TRUE

\* four articles came, of which three were spoken
C18_Witness ==
  /\ NewsAnswered
  /\ Len(call.adapter.articles) = 4
  /\ Len(call.out.said) = 4
  /\ call.out.said[4] = U("News {i}: {title}", <<"3", "No title available">>)
  /\ call.out.ret

(***************************************************************************)
(* A session seen from the microphone: the calls of listen_for_command one *)
(* after the other.  call counts them and keeps the numbers of the calls   *)
(* in which adjust_for_ambient_noise was invoked.                          *)
(***************************************************************************)

\* the calls of listen_for_command in one session
MaxListens == 5

\* everything but is_listening and call
sessionVars ==
  <<pc, should_quit, client, newsapi_key, consecutive_errors, command,
    said, opened, result, newsReq, aiReq, failure, interrupted,
    prevErrors, noneRun, startCount, excRun, sayers>>

\* the calls made so far, 0 before the first
ListenCount == IF call = NoCall THEN 0 ELSE call.n

\* the calls that invoked adjust_for_ambient_noise
Calibrations == IF call = NoCall THEN {} ELSE call.calibs

\* one more call of listen_for_command
CallListen ==
  /\ call.op \in {"none", "listen"}
  /\ ListenCount < MaxListens
  /\ \E out \in ListenOutcomes :
       /\ out.kind = "calib_error" => ~is_listening
       /\ \E heard \in {listen_for_command(is_listening, out)} :
            /\ is_listening' = heard.is_listening
            /\ call' = [op |-> "listen", n |-> ListenCount + 1,
                        calibs |-> IF heard.calibrated
                                   THEN Calibrations \cup {ListenCount + 1}
                                   ELSE Calibrations,
                        met |-> out.kind]
  /\ UNCHANGED sessionVars

InitListen == Init /\ client /\ newsapi_key

NextListen == CallListen

SpecListen == InitListen /\ [][NextListen]_vars

\* C19: adjust_for_ambient_noise is invoked exactly once in a session, in the
\* first call of listen_for_command and in no later one, whatever the calls
\* end in: a timeout, unintelligible speech, an error of the recognition
\* service, a failing microphone, a failing calibration.
C19_CalibratedOnceAtFirstCall ==
  call.op = "listen" => call.calibs = {1}

(***************************************************************************)
(* Claim about the error counter of run()                                  *)
(***************************************************************************)

\* C21: at the start of every iteration of the loop of run(), whatever the
\* recognitions, failed listens and exceptions before it,
\* 0 <= consecutive_errors < max_consecutive_errors: the counter is never
\* negative and never remains at the threshold into the next iteration.
C21_CounterBelowThreshold ==
  pc = "listen" =>
    /\ 0 <= consecutive_errors
    /\ consecutive_errors < max_consecutive_errors

\* the counter went from 4 to the threshold in the last iteration, the
\* hearing notice was spoken, and the next iteration starts at 0
C21_Witness ==
  /\ pc = "listen"
  /\ prevErrors = max_consecutive_errors - 1
  /\ command = None
  /\ InSeq(HearingNotice, said)
  /\ consecutive_errors = 0

====
